---------------------------- MODULE Spec2Model ----------------------------
(***************************************************************************)
(* A model of lib/monitor.js of pm2-gui: the socket.io monitor that serves *)
(* the `sys`, `log` and `proc` namespaces.  Every handler of the file is   *)
(* one action; asynchronous callbacks (pm.tail, pidusage.stat,             *)
(* stat.cpuUsage, pm.list, setTimeout, setInterval) are separate actions   *)
(* that fire when their request or timer is pending.  The event loop runs  *)
(* each handler to completion, so every action is atomic.                  *)
(*                                                                         *)
(* The transport is socket.io as the file uses it: the sockets of a        *)
(* namespace are an array (lines 184, 297, 516), a socket is in the array  *)
(* when its connection handler runs and has left it when its disconnect    *)
(* handler runs, and a handshake that the middleware refuses never reaches *)
(* a connection handler.  An exception that escapes a handler ends the     *)
(* handler where it is thrown; the states before it stay reachable whether *)
(* or not the process survives it, so the model lets the monitor go on.    *)
(*                                                                         *)
(* The server is bound by the `sockio` setter (lines 656-663), which also  *)
(* installs the connection handlers and the middleware: clients are served *)
(* from then on, before run() as well.  run() and quit() have no guard and *)
(* may be called at any time and repeatedly.  Setting `sockio` again       *)
(* closes the server in use; which of its connections have closed when     *)
(* close() returns is the transport's choice, and the sockets it leaves    *)
(* keep their handlers, which read the namespaces of the new server when   *)
(* they disconnect.                                                        *)
(*                                                                         *)
(* The static functions toConnectionString and parseConnectionString and   *)
(* the environment filter of _refreshProcs are operators on strings, a     *)
(* string being the sequence of its characters; SpecCodec and SpecEnv      *)
(* apply them to every input of a bounded set.                             *)
(***************************************************************************)
EXTENDS Integers, FiniteSets, Sequences, TLC

(* ------------------------------ bounds -------------------------------- *)
\* number of client connections that may exist per namespace
MaxSysConns == 2
MaxLogConns == 2
MaxProcConns == 2
\* process ids the clients ask for
MaxPid == 2
\* tail streams (being opened or running) at any time, over all pids
MaxOpens == 2
\* usage samples in flight per pid
MaxSamples == 1
\* calls of _throttleRefresh in a run
MaxTriggers == 3
\* where every caller of _broadcast is at work: calls of run(), tail streams
\* (being opened or running), armed usage timers, pm.list calls in flight
MaxRuns == 2
MaxTails == 1
MaxObservers == 1
MaxLists == 1

SysConns == 1..MaxSysConns
LogConns == 1..MaxLogConns
ProcConns == 1..MaxProcConns
Pids == 1..MaxPid

\* `undefined` as the value of socket._pm_id / socket._pid / a missing argument
NoPid == 0

\* options.agent.authorization and socket.handshake.query.auth
NoAuth == ""
Secret == "s3cret"
AuthConfigs == {NoAuth, Secret}
Tokens == {NoAuth, Secret, "wrong"}

\* conf.NSP
NspSys == "sys"
NspLog == "log"
NspProc == "proc"

VARIABLES
  phase,         \* "new" after the constructor (_tails and _usages are
                 \* undefined), "run" after run(), "quit" after a quit() that
                 \* closed the pm2 bus of a run()
  sockio,        \* this._sockio: "none" (undefined), "open" (a server that
                 \* listens) or "closed" (a server that close() was called on)
  staleSys,      \* sys sockets of a replaced server that are still connected
  staleLog,      \* log sockets of a replaced server that are still connected
  staleProc,     \* proc sockets of a replaced server that are still connected
  oldSubs,       \* a pm.sub subscription of an earlier run() is still open and
                 \* this.pm2Sock no longer refers to it
  auth,          \* options.agent.authorization ("" when not configured)
  sysSocks,      \* _sockio.of(NSP.SYS).sockets
  logSocks,      \* _sockio.of(NSP.LOG).sockets
  procSocks,     \* _sockio.of(NSP.PROC).sockets
  noClient,      \* this._noClient
  status,        \* this._status: "R" or "" (deleted)
  statInFlight,  \* stat.cpuUsage calls whose callback is pending
  hbTimers,      \* armed setTimeout(_nextTick) timers
  sysStat,       \* this._sysStat is set
  pm_id,         \* socket._pm_id of each log socket
  tails,         \* this._tails: pid -> a handle is registered
  opening,       \* pm.tail calls whose open callback is pending, per pid
  liveTails,     \* tail processes spawned and not killed, per pid
  sockPid,       \* socket._pid of each proc socket
  usages,        \* this._usages: pid -> a timer is registered
  armed,         \* the setInterval timers of the pid that are armed
  sampling,      \* pidusage.stat calls whose callback is pending, per pid
  throttle,      \* this._throttle: the timer id, 0 when null/undefined
  thTimers,      \* armed setTimeout timers of _throttleRefresh
  timerSeq,      \* ids handed out by setTimeout in _throttleRefresh
  listInFlight,  \* pm.list calls whose callback is pending
  procs,         \* this._procs is set (a list has been cached)
  procList,      \* the pm_ids of the processes in this._procs
  actions,       \* pm.action calls of each sys connection: "none", "pending",
                 \* or "orphan" (pending, and the socket has disconnected)
  deliveries,    \* history: the events that _broadcast emitted to a namespace
                 \* in the handler that ran last
  thrown,        \* history: exceptions that escaped the handler that ran last
  lastOp,        \* history: the handler that ran last, <<name, argument>>
  attempt,       \* history: the token of the last connection attempt
  everConnected, \* history: a sys client has connected
  runOverClient, \* history: run() was called with a sys client connected, and
                 \* no sys client has connected and the sys namespace has not
                 \* emptied since
  idleTicks,     \* history: stat refreshes started since sys became empty
  bursts,        \* history: bursts of _throttleRefresh calls started
  refreshCount,  \* history: calls of _refreshProcs
  lastEmit,      \* history: what the last handler sent as the reply to a connect
                 \* or a procs request, as the outcome of a list refresh or as
                 \* the report of a failed request (an action, the opening of
                 \* a tail, a line of a tail), one record per recipient
  conn,          \* the connection object given to the codec
  uri,           \* a connection string, as toConnectionString or a user wrote it
  parsed,        \* the connection object parseConnectionString returned
  env,           \* proc.pm2_env of a listed process
  filtered,      \* the pm2_env that _refreshProcs put in its place
  purePc         \* which of the functions above has been applied

sockVars == <<sysSocks, logSocks, procSocks, noClient>>
srvVars == <<sockio, staleSys, staleLog, staleProc, oldSubs>>
hbVars == <<status, statInFlight, hbTimers, sysStat>>
tailVars == <<pm_id, tails, opening, liveTails>>
usageVars == <<sockPid, usages, armed, sampling>>
thVars == <<throttle, thTimers, timerSeq, listInFlight, procs, procList>>
histVars == <<deliveries, thrown, lastOp, attempt, everConnected, runOverClient, idleTicks, bursts, refreshCount,
             lastEmit>>
\* the program's own state, without the history variables
progVars == <<phase, auth, srvVars, actions, sockVars, hbVars, tailVars, usageVars, thVars>>
\* the inputs and results of the static and pure functions
pureVars == <<conn, uri, parsed, env, filtered, purePc>>
vars == <<progVars, histVars, pureVars>>

NoOp == <<"-", 0>>

(* --------------------------- pure helpers ----------------------------- *)

\* Monitor.prototype._broadcast: the event that a call emits to the
\* namespace, given the value of _noClient and the sys sockets at the time of
\* the call; nothing when _noClient is set.  `sys` records whether a sys
\* socket was connected when the event was emitted.
Broadcast(noCl, socks, ev, err, nsp) ==
  IF noCl THEN {}
  ELSE {[nsp |-> nsp, ev |-> ev, err |-> err, sys |-> socks # {}]}

\* Monitor.prototype._broadcast: what a call sends, one record per socket of
\* the namespace; nothing when _noClient is set
Emitted(noCl, socks, ev, err, nsp) ==
  IF noCl THEN {}
  ELSE {[nsp |-> nsp, ev |-> ev, err |-> err, to |-> c] : c \in socks}

\* the sys sockets that are connected: those of the server in use and those
\* of a replaced server that have not disconnected yet
SysClients == sysSocks \cup staleSys

\* socket.emit: what a direct emit sends to the one socket c
EmitTo(c, ev, err, nsp) == {[nsp |-> nsp, ev |-> ev, err |-> err, to |-> c]}

\* _connectSysSock, disconnect handler: the new value of _noClient
\* (variant: the flag is not recomputed and stays false)
NoClientOnDisconnectMut(socks) == FALSE
NoClientOnDisconnect(socks) == Cardinality(socks) = 0

\* _listeningSocketIO: the middleware is installed only when an authorization
\* is configured, and then lets a handshake pass iff its token is identical
\* (variant: any token at all passes)
AuthorizedMut(secret, tok) == secret = NoAuth \/ tok # NoAuth
Authorized(secret, tok) == secret = NoAuth \/ ~(secret # tok)

(* ------------------------------ strings ------------------------------- *)
\* A JavaScript string is the sequence of its characters, each a string of
\* length one; positions are counted from 0 as in JavaScript.

\* String.prototype.indexOf(ch): the first position of ch, or -1
IndexOf(s, ch) ==
  IF \E i \in 1..Len(s) : s[i] = ch
  THEN (CHOOSE i \in 1..Len(s) : s[i] = ch /\ \A j \in 1..(i - 1) : s[j] # ch) - 1
  ELSE -1

\* String.prototype.lastIndexOf(ch): the last position of ch, or -1
LastIndexOf(s, ch) ==
  IF \E i \in 1..Len(s) : s[i] = ch
  THEN (CHOOSE i \in 1..Len(s) : s[i] = ch /\ \A j \in (i + 1)..Len(s) : s[j] # ch) - 1
  ELSE -1

\* String.prototype.slice(from, to) and slice(from)
Slice(s, from, to) == SubSeq(s, from + 1, to)
SliceFrom(s, from) == SubSeq(s, from + 1, Len(s))

\* the string begins with the prefix
StartsWith(s, pre) == Len(s) >= Len(pre) /\ SubSeq(s, 1, Len(pre)) = pre

\* the values null and undefined where a string may stand
Null == <<"null">>
Undefined == <<"undefined">>

\* _.trimLeft(string, chars) of lodash, for one character; null gives ''
RECURSIVE TrimLeft(_, _)
TrimLeft(s, ch) ==
  IF s = Null THEN <<>>
  ELSE IF s # <<>> /\ s[1] = ch THEN TrimLeft(SubSeq(s, 2, Len(s)), ch)
  ELSE s

Digits == <<"0", "1", "2", "3", "4", "5", "6", "7", "8", "9">>
IsDigit(ch) == \E i \in 1..Len(Digits) : Digits[i] = ch

\* the decimal text of a number, as string concatenation produces it
RECURSIVE ToDecimal(_)
ToDecimal(n) ==
  IF n < 10 THEN <<Digits[n + 1]>>
  ELSE ToDecimal(n \div 10) \o <<Digits[(n % 10) + 1]>>

\* String.prototype.charCodeAt for the characters of the keys of an environment
UpperCase == <<"A", "B", "C", "D", "E", "F", "G", "H", "I", "J", "K", "L", "M", "N", "O", "P", "Q", "R", "S", "T", "U", "V", "W", "X", "Y", "Z">>
LowerCase == <<"a", "b", "c", "d", "e", "f", "g", "h", "i", "j", "k", "l", "m", "n", "o", "p", "q", "r", "s", "t", "u", "v", "w", "x", "y", "z">>
CharCode(ch) ==
  IF \E i \in 1..26 : UpperCase[i] = ch THEN 64 + (CHOOSE i \in 1..26 : UpperCase[i] = ch)
  ELSE IF \E i \in 1..26 : LowerCase[i] = ch THEN 96 + (CHOOSE i \in 1..26 : LowerCase[i] = ch)
  ELSE IF IsDigit(ch) THEN 47 + (CHOOSE i \in 1..10 : Digits[i] = ch)
  ELSE IF ch = "_" THEN 95
  ELSE 0

\* connection.port is a number; this value stands for a missing one
UndefinedPort == 0 - 1

(* --------------------- the connection string codec -------------------- *)

StrHttp == <<"h", "t", "t", "p", ":">>
StrHttps == <<"h", "t", "t", "p", "s", ":">>
StrLoopback == <<"1", "2", "7", ".", "0", ".", "0", ".", "1">>
StrAuthEq == <<"a", "u", "t", "h", "=">>
StrSlashes == <<"/", "/">>

\* `x || dflt` for a string that is missing or empty
OrElse(x, dflt) == IF x = <<>> THEN dflt ELSE x

\* ':' + connection.port
PortText(port) == IF port = UndefinedPort THEN <<"u", "n", "d", "e", "f", "i", "n", "e", "d">> ELSE ToDecimal(port)

\* Monitor.toConnectionString
ToConnectionString(connection) ==
  LET u == OrElse(connection.protocol, StrHttp) \o StrSlashes
             \o OrElse(connection.hostname, StrLoopback) \o <<":">>
             \o PortText(connection.port)
             \o connection.path \o connection.namespace
  IN IF connection.authorization # <<>>
     THEN u \o (IF IndexOf(u, "?") > 0 THEN <<"&">> ELSE <<"?">>) \o StrAuthEq
            \o connection.authorization
     ELSE u

\* /^http(s)?:\/\//i on a string without capital letters
HasScheme(s) == StartsWith(s, StrHttp \o StrSlashes) \/ StartsWith(s, StrHttps \o StrSlashes)

\* the first position in s of one of "/", "?", "#", or the length of s
HostEnd(s) ==
  IF \E i \in 1..Len(s) : s[i] \in {"/", "?", "#"}
  THEN (CHOOSE i \in 1..Len(s) :
          s[i] \in {"/", "?", "#"} /\ \A j \in 1..(i - 1) : s[j] \notin {"/", "?", "#"}) - 1
  ELSE Len(s)

\* /:[0-9]*$/ of url.parse: the position of the colon of the port, or -1
PortMatch(host) ==
  LET c == LastIndexOf(host, ":")
  IN IF c >= 0 /\ \A i \in (c + 2)..Len(host) : IsDigit(host[i]) THEN c ELSE -1

\* url.parse of Node on 'http://' or 'https://' followed by a host of
\* letters, digits and dots, an optional port, path and query, without
\* capitals, '@' or '#': [protocol, hostname, port, path]
UrlParse(s) ==
  LET colon == IndexOf(s, ":")
      rest == SliceFrom(s, colon + 3)
      hostEnd == HostEnd(rest)
      host == Slice(rest, 0, hostEnd)
      after == SliceFrom(rest, hostEnd)
      pm == PortMatch(host)
      hostname == IF pm >= 0 THEN Slice(host, 0, pm) ELSE host
      q == IndexOf(after, "?")
      search == IF q >= 0 THEN SliceFrom(after, q) ELSE <<>>
      pathname0 == IF q >= 0 THEN Slice(after, 0, q) ELSE after
      pathname == IF pathname0 = <<>> /\ hostname # <<>> THEN <<"/">> ELSE pathname0
  IN [protocol |-> Slice(s, 0, colon + 1),
      hostname |-> hostname,
      port     |-> IF pm >= 0 /\ pm + 1 < Len(host) THEN SliceFrom(host, pm + 1) ELSE Null,
      path     |-> IF pathname = <<>> /\ search = <<>> THEN Null ELSE pathname \o search]

\* parseConnectionString, line 633: the default port
DefaultPort == 8088

\* Monitor.parseConnectionString.  The string given to url.parse is never
\* empty, so the branch of line 646 is always taken and the defaults of
\* hostname and port are overwritten; namespace is not assigned
ParseConnectionString(connectionString) ==
  LET defaults == [port |-> ToDecimal(DefaultPort), hostname |-> StrLoopback,
                   authorization |-> <<>>]
      lastAt == LastIndexOf(connectionString, "@")
      authorization == IF lastAt >= 0 THEN Slice(connectionString, 0, lastAt)
                       ELSE defaults.authorization
      str1 == IF lastAt >= 0 THEN SliceFrom(connectionString, lastAt + 1)
              ELSE connectionString
      str2 == IF ~HasScheme(str1) THEN StrHttp \o StrSlashes \o str1 ELSE str1
      parsedUrl == UrlParse(str2)
  IN IF str2 # <<>>
     THEN [hostname |-> parsedUrl.hostname,
           port |-> parsedUrl.port,
           path |-> TrimLeft(parsedUrl.path, "/"),
           protocol |-> parsedUrl.protocol,
           authorization |-> authorization,
           namespace |-> Undefined]
     ELSE [hostname |-> defaults.hostname,
           port |-> defaults.port,
           path |-> Undefined,
           protocol |-> Undefined,
           authorization |-> authorization,
           namespace |-> Undefined]

\* a connection string as a user or Monitor.available (line 579) writes it:
\* [authorization@][protocol//][hostname][:port][path]
ConnectionStringOf(connection) ==
  (IF connection.authorization # <<>> THEN connection.authorization \o <<"@">> ELSE <<>>)
  \o (IF connection.protocol # <<>> THEN connection.protocol \o StrSlashes ELSE <<>>)
  \o connection.hostname
  \o (IF connection.port # UndefinedPort THEN <<":">> \o ToDecimal(connection.port) ELSE <<>>)
  \o connection.path

\* the connection objects given to the codec
Protocols == {<<>>, StrHttp, StrHttps}
Hostnames == {<<>>, StrLoopback, <<"p", "m", "2", ".", "i", "o">>}
Ports == {UndefinedPort, 80, DefaultPort}
Paths == {<<>>, <<"/", "g", "u", "i">>}
Namespaces == {<<>>, <<"/", "s", "y", "s">>}
Authorizations == {<<>>, <<"t", "o", "k">>}
Endpoints ==
  [protocol : Protocols, hostname : Hostnames, port : Ports, path : Paths,
   namespace : Namespaces, authorization : Authorizations]

(* ----------------------- the environment filter ----------------------- *)

KeyUSER == <<"U", "S", "E", "R">>
KeyUser == <<"u", "s", "e", "r">>
KeyVersioning == <<"v", "e", "r", "s", "i", "o", "n", "i", "n", "g">>
KeyCommand == <<"c", "o", "m", "m", "a", "n", "d">>
StrAxm == <<"a", "x", "m", "_">>

\* _refreshProcs, lines 446-450: the test of a field to ignore
IgnoreKey(key) ==
  \/ Slice(key, 0, 1) = <<"_">>
  \/ StartsWith(key, StrAxm)
  \/ key \in {KeyVersioning, KeyCommand}
  \/ CharCode(key[1]) <= 90

\* _refreshProcs, lines 437-453: the pm2_env that replaces the one of a
\* process; e is [present, map], the map from the keys to the values
FilterEnv(e) ==
  LET raw == IF e.present THEN e.map ELSE [k \in {KeyUSER} |-> "UNKNOWN"]
      kept == {k \in DOMAIN raw : ~IgnoreKey(k)}
  IN [k \in {KeyUser} \cup kept |->
        IF k \in kept THEN raw[k]
        ELSE IF KeyUSER \in DOMAIN raw THEN raw[KeyUSER] ELSE "undefined"]

\* the environments given to the filter
EnvKeys == {KeyUSER, KeyUser, KeyVersioning, KeyCommand, <<"_", "i", "n", "t", "e", "r", "n", "a", "l">>,
            <<"a", "x", "m", "_", "m", "o", "n", "i", "t", "o", "r">>, <<"P", "O", "R", "T">>,
            <<"u", "s", "e", "r", "_", "k", "e", "y">>, <<"a", "x", "m">>}
EnvMap(K, u) ==
  [k \in K |-> IF k = KeyUSER THEN u ELSE IF k = KeyUser THEN "carol" ELSE "v"]
Envs ==
  {[present |-> FALSE, map |-> EnvMap({}, "v")]} \cup
  {[present |-> TRUE, map |-> EnvMap(K, u)] : K \in SUBSET EnvKeys, u \in {"alice", "bob"}}

(* ------------------------------- Init --------------------------------- *)

\* the codec holds the connection object c and the filter the environment e,
\* and neither has been applied
PureInit(pc, c, e) ==
  /\ conn = c
  /\ uri = <<>>
  /\ parsed = ParseConnectionString(<<>>)
  /\ env = e
  /\ filtered = EnvMap({}, "v")
  /\ purePc = pc
\* the connection object and the environment while the monitor runs
IdleConn ==
  [protocol |-> <<>>, hostname |-> <<>>, port |-> DefaultPort, path |-> <<>>,
   namespace |-> <<>>, authorization |-> <<>>]
IdleEnv == [present |-> FALSE, map |-> EnvMap({}, "v")]

InitMonitor(a) ==
  /\ phase = "new"
  /\ auth = a
  \* 'sockio' is not among ACCEPT_KEYS (line 33), so _init never binds a server
  /\ sockio = "none"
  /\ staleSys = {} /\ staleLog = {} /\ staleProc = {}
  /\ oldSubs = FALSE
  /\ sysSocks = {} /\ logSocks = {} /\ procSocks = {}
  /\ noClient = FALSE
  /\ status = "" /\ statInFlight = 0 /\ hbTimers = 0 /\ sysStat = FALSE
  /\ pm_id = [c \in LogConns |-> NoPid]
  /\ tails = [p \in Pids |-> FALSE]
  /\ opening = [p \in Pids |-> 0]
  /\ liveTails = [p \in Pids |-> 0]
  /\ sockPid = [c \in ProcConns |-> NoPid]
  /\ usages = [p \in Pids |-> FALSE]
  /\ armed = [p \in Pids |-> 0]
  /\ sampling = [p \in Pids |-> 0]
  /\ throttle = 0 /\ thTimers = {} /\ timerSeq = 0 /\ listInFlight = 0
  /\ procs = FALSE /\ procList = {}
  /\ actions = [c \in SysConns |-> "none"]
  /\ deliveries = {} /\ thrown = {} /\ lastOp = NoOp /\ attempt = NoAuth
  /\ everConnected = FALSE /\ runOverClient = FALSE /\ idleTicks = 0 /\ bursts = 0 /\ refreshCount = 0
  /\ lastEmit = {}

\* the state after the constructor
InitWith(a) == InitMonitor(a) /\ PureInit("idle", IdleConn, IdleEnv)

\* the default configuration: no agent.authorization
Init == InitWith(NoAuth)
\* any configuration of the shared secret
InitAuth == \E a \in AuthConfigs : InitWith(a)

(* ------------------------- run and the throttle ----------------------- *)

\* clearTimeout: the armed timers without the one referred to
\* (variant: the pending timer is not cleared)
ClearTimeoutMut(timers, t) == timers
ClearTimeout(timers, t) == timers \ {t}

\* setTimeout: the armed timers with the new one
\* (variant: the id is handed out but no timer is armed)
SetTimeoutMut(timers, t) == timers
SetTimeout(timers, t) == timers \cup {t}

\* Monitor.prototype._throttleRefresh: drop the pending timer, arm a new one
ThrottleRefresh ==
  /\ throttle' = timerSeq + 1
  /\ thTimers' = SetTimeout(IF throttle # 0 THEN ClearTimeout(thTimers, throttle)
                            ELSE thTimers,
                            timerSeq + 1)
  /\ timerSeq' = timerSeq + 1
  \* a burst begins when the timer armed by the previous call has fired
  /\ bursts' = IF timerSeq = 0 \/ timerSeq \notin thTimers THEN bursts + 1 ELSE bursts

\* Monitor.prototype.run, with _observePM2 and its forced refresh.  Nothing
\* keeps run() from being called again, or with clients connected: the flag
\* and the registries are reset whatever they hold (the tail processes and
\* the interval timers they referred to go on), pm.sub subscribes once more
\* and the subscription of the run before is left open.  _listeningSocketIO
\* returns at once: there is no server, or the setter made it listen
Run ==
  /\ timerSeq < MaxTriggers
  /\ phase' = "run"
  /\ oldSubs' = (oldSubs \/ phase = "run")
  /\ noClient' = TRUE
  /\ tails' = [p \in Pids |-> FALSE]
  /\ usages' = [p \in Pids |-> FALSE]
  /\ ThrottleRefresh
  /\ lastOp' = NoOp
  /\ lastEmit' = {}
  /\ UNCHANGED <<auth, sockio, staleSys, staleLog, staleProc, actions, sysSocks, logSocks,
                 procSocks, hbVars, pm_id, opening, liveTails,
                 sockPid, armed, sampling, listInFlight, procs, procList,
                 attempt, everConnected, idleTicks, refreshCount>>
  /\ runOverClient' = (sysSocks # {})
  /\ deliveries' = {}
  /\ thrown' = {}
  /\ UNCHANGED pureVars

\* _observePM2: the callback of pm.sub, for an event of any kind, on the
\* subscription of the last run() or on one that an earlier run() left open
Pm2Event ==
  /\ phase = "run" \/ oldSubs
  /\ timerSeq < MaxTriggers
  /\ ThrottleRefresh
  /\ lastOp' = NoOp
  /\ lastEmit' = {}
  /\ UNCHANGED <<phase, auth, srvVars, actions, sockVars, hbVars, tailVars, usageVars, listInFlight, procs, procList,
                 attempt, everConnected, runOverClient, idleTicks, refreshCount>>
  /\ deliveries' = {}
  /\ thrown' = {}
  /\ UNCHANGED pureVars

\* _throttleRefresh: the timer callback; _refreshProcs issues pm.list
ThrottleFire ==
  /\ \E t \in thTimers :
       /\ thTimers' = thTimers \ {t}
       /\ throttle' = 0
       /\ listInFlight' = listInFlight + 1
       /\ refreshCount' = refreshCount + 1
  /\ lastOp' = NoOp
  /\ lastEmit' = {}
  /\ UNCHANGED <<phase, auth, srvVars, actions, sockVars, hbVars, tailVars, usageVars, timerSeq, procs, procList,
                 attempt, everConnected, runOverClient, idleTicks, bursts>>
  /\ deliveries' = {}
  /\ thrown' = {}
  /\ UNCHANGED pureVars

\* _refreshProcs, line 436: this._procs = procs.map(...), a new array
\* (variant: the new list is merged into the cached one)
ReplaceProcsMut(old, new) == old \cup new
ReplaceProcs(old, new) == new

\* _refreshProcs: the callback of pm.list, with an error (~ok) or with the
\* list of the processes (their pm_ids)
ListDone(ok, list) ==
  /\ listInFlight > 0
  /\ listInFlight' = listInFlight - 1
  /\ IF ok
       THEN /\ procs' = TRUE
            /\ procList' = ReplaceProcs(procList, list)
            /\ deliveries' = Broadcast(noClient, SysClients, "procs", FALSE, NspSys)
            /\ lastEmit' = Emitted(noClient, sysSocks, "procs", FALSE, NspSys)
            \* the argument is the list that pm.list returned
            /\ lastOp' = <<"listOk", list>>
       ELSE /\ procs' = procs
            /\ procList' = procList
            /\ deliveries' = Broadcast(noClient, SysClients, "info", TRUE, NspSys)
            /\ lastEmit' = Emitted(noClient, sysSocks, "info", TRUE, NspSys)
            /\ lastOp' = <<"listErr", 0>>
  /\ UNCHANGED <<phase, auth, srvVars, actions, sockVars, hbVars, tailVars, usageVars, throttle, thTimers,
                 timerSeq, attempt, everConnected, runOverClient, idleTicks, bursts, refreshCount>>
  /\ thrown' = {}
  /\ UNCHANGED pureVars

(* --------------------- sys namespace and heartbeat -------------------- *)

\* the test `this._status == 'R'` of lines 205 and 357
\* (variant: the status is compared with a value it never has)
RunningMut(st) == st = "r"
Running(st) == st = "R"

\* _connectSysSock, line 205: the connect starts a tick unless one is running
\* (variant: the test is inverted)
ShouldStartTickMut(st) == st = "R"
ShouldStartTick(st) == ~Running(st)

\* _nextTick, the callback of _systemStat: grep again while a client is there
\* (variant: the timer is armed whether or not a client is there)
RescheduleMut(noCl) == TRUE
Reschedule(noCl) == ~noCl

\* _nextTick(tick, continuously): no-op when running and not forced to continue
NextTick(continuously) ==
  IF Running(status) /\ ~continuously
  THEN UNCHANGED <<status, statInFlight>>
  ELSE /\ status' = "R"
       /\ statInFlight' = statInFlight + 1

\* _connectSysSock, sendProcs: the cache goes to the socket when it is set, as
\* `info` when it is a string and as `procs` otherwise.  _refreshProcs is the
\* only writer of _procs and assigns an array, so it is never a string
SendProcs(c) ==
  IF procs THEN EmitTo(c, "procs", FALSE, NspSys) ELSE {}

\* a connection to the sys namespace: the middleware, then _connectSysSock.
\* The reply of _pm2Ver goes to the socket as `pm2_ver` and changes nothing of
\* the monitor
ConnectSys(c, tok) ==
  /\ sockio = "open"
  /\ c \notin sysSocks \cup staleSys
  /\ attempt' = tok
  /\ IF Authorized(auth, tok)
     THEN /\ sysSocks' = sysSocks \cup {c}
          /\ noClient' = FALSE
          /\ deliveries' = IF sysStat
                           THEN Broadcast(FALSE, sysSocks', "system_stat", FALSE, NspSys)
                           ELSE {}
          /\ lastEmit' = SendProcs(c)
          /\ everConnected' = TRUE
          /\ runOverClient' = FALSE
          /\ IF ShouldStartTick(status)
             THEN NextTick(FALSE)
             ELSE UNCHANGED <<status, statInFlight>>
          /\ idleTicks' = 0
          /\ UNCHANGED <<phase, auth, srvVars, actions, logSocks, procSocks, hbTimers, sysStat, tailVars,
                         usageVars, thVars, bursts, refreshCount>>
     ELSE /\ lastEmit' = {}
          /\ deliveries' = {}
          /\ UNCHANGED <<progVars, everConnected, runOverClient, idleTicks, bursts,
                         refreshCount>>
  \* the argument says whether the connect started a tick
  /\ lastOp' = <<"connect", IF status' # status THEN 1 ELSE 0>>
  /\ thrown' = {}
  /\ UNCHANGED pureVars

\* _connectSysSock: the disconnect handler of a sys socket
DisconnectSys(c) ==
  /\ c \in sysSocks
  /\ sysSocks' = sysSocks \ {c}
  /\ noClient' = NoClientOnDisconnect(sysSocks')
  \* a pending pm.action keeps its reference to the closed socket
  /\ actions' = [actions EXCEPT ![c] = IF @ = "pending" THEN "orphan" ELSE @]
  /\ lastOp' = NoOp
  /\ lastEmit' = {}
  /\ UNCHANGED <<phase, auth, srvVars, logSocks, procSocks, hbVars, tailVars, usageVars, thVars,
                 attempt, everConnected, idleTicks, bursts, refreshCount>>
  /\ runOverClient' = (runOverClient /\ sysSocks' # {})
  /\ deliveries' = {}
  /\ thrown' = {}
  /\ UNCHANGED pureVars

\* the disconnect handler of a sys socket of a replaced server: the flag is
\* recomputed from the sys namespace of the server in use
DisconnectStaleSys(c) ==
  /\ c \in staleSys
  /\ staleSys' = staleSys \ {c}
  /\ noClient' = NoClientOnDisconnect(sysSocks)
  /\ actions' = [actions EXCEPT ![c] = IF @ = "pending" THEN "orphan" ELSE @]
  /\ lastOp' = NoOp
  /\ lastEmit' = {}
  /\ UNCHANGED <<phase, auth, sockio, staleLog, staleProc, oldSubs, sysSocks, logSocks, procSocks,
                 hbVars, tailVars, usageVars, thVars,
                 attempt, everConnected, runOverClient, idleTicks, bursts, refreshCount>>
  /\ deliveries' = {}
  /\ thrown' = {}
  /\ UNCHANGED pureVars

\* socket.on('procs', sendProcs)
ProcsRequest(c) ==
  /\ c \in sysSocks
  /\ lastEmit' = SendProcs(c)
  /\ lastOp' = NoOp
  /\ UNCHANGED <<progVars, attempt, everConnected, runOverClient, idleTicks, bursts,
                 refreshCount>>
  /\ deliveries' = {}
  /\ thrown' = {}
  /\ UNCHANGED pureVars

\* socket.on('action'): pm.action is called for the socket
ActionRequest(c) ==
  /\ c \in sysSocks
  /\ actions[c] = "none"
  /\ actions' = [actions EXCEPT ![c] = "pending"]
  /\ lastOp' = NoOp
  /\ lastEmit' = {}
  /\ UNCHANGED <<phase, auth, srvVars, sockVars, hbVars, tailVars, usageVars, thVars,
                 attempt, everConnected, runOverClient, idleTicks, bursts, refreshCount>>
  /\ deliveries' = {}
  /\ thrown' = {}
  /\ UNCHANGED pureVars

\* socket.on('action'): the callback of pm.action.  An error goes to the
\* socket of the request with socket.emit (nothing is sent when that socket
\* has disconnected); otherwise forceRefresh calls _throttleRefresh
ActionDone(c, err, forceRefresh) ==
  /\ actions[c] # "none"
  /\ actions' = [actions EXCEPT ![c] = "none"]
  /\ IF err
     THEN /\ lastEmit' = IF actions[c] = "pending" THEN EmitTo(c, "action", TRUE, NspSys)
                         ELSE {}
          /\ lastOp' = <<"actionFail", c>>
          /\ UNCHANGED <<thVars, bursts>>
     ELSE /\ lastEmit' = {}
          /\ lastOp' = NoOp
          /\ IF forceRefresh
             THEN /\ timerSeq < MaxTriggers
                  /\ ThrottleRefresh
                  /\ UNCHANGED <<listInFlight, procs, procList>>
             ELSE UNCHANGED <<thVars, bursts>>
  /\ UNCHANGED <<phase, auth, srvVars, sockVars, hbVars, tailVars, usageVars,
                 attempt, everConnected, runOverClient, idleTicks, refreshCount>>
  /\ deliveries' = {}
  /\ thrown' = {}
  /\ UNCHANGED pureVars

\* _systemStat: the callback of stat.cpuUsage, then the callback of _nextTick
StatDone(ok) ==
  /\ statInFlight > 0
  /\ statInFlight' = statInFlight - 1
  /\ IF ok
     THEN /\ sysStat' = TRUE
          /\ deliveries' = Broadcast(noClient, SysClients, "system_stat", FALSE, NspSys)
     ELSE /\ sysStat' = sysStat
          /\ deliveries' = {}
  /\ IF Reschedule(noClient)
     THEN /\ hbTimers' = hbTimers + 1
          /\ status' = status
     ELSE /\ status' = ""
          /\ hbTimers' = hbTimers
  /\ lastOp' = NoOp
  /\ lastEmit' = {}
  /\ UNCHANGED <<phase, auth, srvVars, actions, sockVars, tailVars, usageVars, thVars,
                 attempt, everConnected, runOverClient, idleTicks, bursts, refreshCount>>
  /\ thrown' = {}
  /\ UNCHANGED pureVars

\* the setTimeout of _nextTick fires: _nextTick(tick, true)
HbTimerFire ==
  /\ hbTimers > 0
  /\ hbTimers' = hbTimers - 1
  /\ NextTick(TRUE)
  /\ idleTicks' = IF SysClients = {} THEN (IF idleTicks < 2 THEN idleTicks + 1 ELSE 2)
                  ELSE idleTicks
  /\ lastOp' = NoOp
  /\ lastEmit' = {}
  /\ UNCHANGED <<phase, auth, srvVars, actions, sockVars, sysStat, tailVars, usageVars, thVars,
                 attempt, everConnected, runOverClient, bursts, refreshCount>>
  /\ deliveries' = {}
  /\ thrown' = {}
  /\ UNCHANGED pureVars

(* ------------------------ log namespace and tails --------------------- *)

\* isNaN of the argument of _killTailProcess: a pid is a number; a missing
\* argument and the reason string of a disconnect are not
IsNaN(arg) == arg = NoPid

\* _killTailProcess, killTail(id): kill the handle of id and delete it
KillTail(T, id) ==
  IF ~T.tails[id] THEN T
  ELSE [tails |-> [T.tails EXCEPT ![id] = FALSE],
        live  |-> [T.live EXCEPT ![id] = @ - 1]]

\* _killTailProcess, lines 514-520: the pids tagged on the connected log sockets
\* (variant: the tags of the sockets are not collected)
CanNotBeDeletedMut(socks, tag) == {}
CanNotBeDeleted(socks, tag) == {tag[c] : c \in socks}

\* Monitor.prototype._killTailProcess(arg) with `socks` in the log namespace
KillTailProcess(T, arg, socks, tag) ==
  IF ~IsNaN(arg) THEN KillTail(T, arg)
  ELSE LET keep == CanNotBeDeleted(socks, tag)
       IN [tails |-> [p \in Pids |-> IF p \notin keep THEN KillTail(T, p).tails[p]
                                     ELSE T.tails[p]],
           live  |-> [p \in Pids |-> IF p \notin keep THEN KillTail(T, p).live[p]
                                     ELSE T.live[p]]]

\* the number of tail streams that pm.tail is opening or has running
RECURSIVE Streams(_, _, _)
Streams(o, l, S) ==
  IF S = {} THEN 0
  ELSE LET p == CHOOSE x \in S : TRUE
       IN o[p] + l[p] + Streams(o, l, S \ {p})

\* a connection to the log namespace: the middleware, then _connectLogSock
ConnectLog(c, tok) ==
  /\ sockio = "open"
  /\ c \notin logSocks \cup staleLog
  /\ attempt' = tok
  /\ lastOp' = <<"connect", 0>>
  /\ lastEmit' = {}
  /\ IF Authorized(auth, tok)
     THEN /\ logSocks' = logSocks \cup {c}
          /\ pm_id' = [pm_id EXCEPT ![c] = NoPid]
          /\ UNCHANGED <<phase, auth, srvVars, actions, sysSocks, procSocks, noClient, hbVars, tails, opening,
                         liveTails, usageVars, thVars>>
     ELSE UNCHANGED progVars
  /\ UNCHANGED <<everConnected, runOverClient, idleTicks, bursts, refreshCount>>
  /\ deliveries' = {}
  /\ thrown' = {}
  /\ UNCHANGED pureVars

\* socket.on('tail', startTailProcess).  Before run() this._tails is
\* undefined and line 232 throws a TypeError, after the socket was tagged
StartTailProcess(c, p) ==
  /\ c \in logSocks
  /\ pm_id' = [pm_id EXCEPT ![c] = p]
  /\ IF phase = "new"
     THEN /\ thrown' = {"TypeError"}
          /\ opening' = opening
     ELSE /\ thrown' = {}
          /\ IF tails[p]
             THEN opening' = opening
             ELSE /\ Streams(opening, liveTails, Pids) < MaxOpens
                  /\ opening' = [opening EXCEPT ![p] = @ + 1]
  /\ lastOp' = NoOp
  /\ lastEmit' = {}
  /\ UNCHANGED <<phase, auth, srvVars, actions, sockVars, hbVars, tails, liveTails, usageVars, thVars,
                 attempt, everConnected, runOverClient, idleTicks, bursts, refreshCount>>
  /\ deliveries' = {}
  /\ UNCHANGED pureVars

\* startTailProcess: the open callback of pm.tail; res is "ok", "err" (an
\* error) or "none" (no log found)
TailOpened(p, res) ==
  /\ opening[p] > 0
  /\ opening' = [opening EXCEPT ![p] = @ - 1]
  /\ IF res = "ok"
     THEN /\ tails' = [tails EXCEPT ![p] = TRUE]
          /\ liveTails' = [liveTails EXCEPT ![p] = @ + 1]
          /\ deliveries' = {}
          /\ lastEmit' = {}
     ELSE /\ deliveries' = Broadcast(noClient, SysClients, "log", TRUE, NspLog)
          /\ lastEmit' = Emitted(noClient, logSocks, "log", TRUE, NspLog)
          /\ UNCHANGED <<tails, liveTails>>
  /\ lastOp' = NoOp
  /\ UNCHANGED <<phase, auth, srvVars, actions, sockVars, hbVars, pm_id, usageVars, thVars,
                 attempt, everConnected, runOverClient, idleTicks, bursts, refreshCount>>
  /\ thrown' = {}
  /\ UNCHANGED pureVars

\* startTailProcess: the line callback of a running tail of pid p; with an
\* error it reports through emitError, as the open callback does
TailLine(p, ok) ==
  /\ liveTails[p] > 0
  /\ deliveries' = Broadcast(noClient, SysClients, "log", ~ok, NspLog)
  /\ lastOp' = <<"line", p>>
  /\ lastEmit' = IF ok THEN {} ELSE Emitted(noClient, logSocks, "log", TRUE, NspLog)
  /\ UNCHANGED <<progVars, attempt, everConnected, runOverClient, idleTicks, bursts, refreshCount>>
  /\ thrown' = {}
  /\ UNCHANGED pureVars

\* socket.on('tail_kill', _killTailProcess): arg is a pid or NoPid (no
\* argument).  Before run() killTail(pid) reads this._tails[pid] of undefined
\* and throws a TypeError; the sweep loops over nothing
TailKill(c, arg) ==
  /\ c \in logSocks
  /\ LET T == KillTailProcess([tails |-> tails, live |-> liveTails], arg, logSocks, pm_id)
     IN /\ tails' = T.tails
        /\ liveTails' = T.live
  /\ thrown' = IF phase = "new" /\ ~IsNaN(arg) THEN {"TypeError"} ELSE {}
  \* the argument of a sweep is the number of handles it removed
  /\ lastOp' = IF IsNaN(arg) THEN <<"sweep", Cardinality({p \in Pids : tails[p] /\ ~tails'[p]})>>
               ELSE NoOp
  /\ lastEmit' = {}
  /\ UNCHANGED <<phase, auth, srvVars, actions, sockVars, hbVars, pm_id, opening, usageVars, thVars,
                 attempt, everConnected, runOverClient, idleTicks, bursts, refreshCount>>
  /\ deliveries' = {}
  /\ UNCHANGED pureVars

\* socket.on('disconnect', _killTailProcess): the socket has left the
\* namespace and the handler gets the reason string
DisconnectLog(c) ==
  /\ c \in logSocks
  /\ logSocks' = logSocks \ {c}
  /\ pm_id' = [pm_id EXCEPT ![c] = NoPid]
  /\ LET T == KillTailProcess([tails |-> tails, live |-> liveTails], NoPid, logSocks', pm_id')
     IN /\ tails' = T.tails
        /\ liveTails' = T.live
  /\ lastOp' = <<"sweep", Cardinality({p \in Pids : tails[p] /\ ~tails'[p]})>>
  /\ lastEmit' = {}
  /\ UNCHANGED <<phase, auth, srvVars, actions, sysSocks, procSocks, noClient, hbVars, opening, usageVars,
                 thVars, attempt, everConnected, runOverClient, idleTicks, bursts,
                 refreshCount>>
  /\ deliveries' = {}
  /\ thrown' = {}
  /\ UNCHANGED pureVars

\* the disconnect handler of a log socket of a replaced server: the sweep
\* reads the log namespace of the server in use
DisconnectStaleLog(c) ==
  /\ c \in staleLog
  /\ staleLog' = staleLog \ {c}
  /\ LET T == KillTailProcess([tails |-> tails, live |-> liveTails], NoPid, logSocks, pm_id)
     IN /\ tails' = T.tails
        /\ liveTails' = T.live
  /\ lastOp' = <<"sweep", Cardinality({p \in Pids : tails[p] /\ ~tails'[p]})>>
  /\ lastEmit' = {}
  /\ UNCHANGED <<phase, auth, sockio, staleSys, staleProc, oldSubs, actions, sockVars, hbVars,
                 pm_id, opening, usageVars, thVars, attempt, everConnected, runOverClient,
                 idleTicks, bursts, refreshCount>>
  /\ deliveries' = {}
  /\ thrown' = {}
  /\ UNCHANGED pureVars

(* ---------------------- proc namespace and usages --------------------- *)

\* killObserver, line 299, reads sock.pid; runObserver, line 314, writes
\* socket._pid, and nothing writes socket.pid: the field is undefined
PidField(c) == NoPid

\* killObserver with `socks` in the proc namespace: [usages, armed, threw].
\* undefined.toString() throws a TypeError out of the forEach, before the
\* loop over the registry
KillObserver(U, A, socks) ==
  IF \E c \in socks : PidField(c) = NoPid
  THEN [usages |-> U, armed |-> A, threw |-> TRUE]
  ELSE LET canNotBeDeleted == {PidField(c) : c \in socks}
       IN [usages |-> [p \in Pids |-> U[p] /\ p \in canNotBeDeleted],
           armed  |-> [p \in Pids |-> IF U[p] /\ p \notin canNotBeDeleted THEN A[p] - 1
                                      ELSE A[p]],
           threw  |-> FALSE]

\* a connection to the proc namespace: the middleware, then _connectProcSock
ConnectProc(c, tok) ==
  /\ sockio = "open"
  /\ c \notin procSocks \cup staleProc
  /\ attempt' = tok
  /\ lastOp' = <<"connect", 0>>
  /\ lastEmit' = {}
  /\ IF Authorized(auth, tok)
     THEN /\ procSocks' = procSocks \cup {c}
          /\ sockPid' = [sockPid EXCEPT ![c] = NoPid]
          /\ UNCHANGED <<phase, auth, srvVars, actions, sysSocks, logSocks, noClient, hbVars, tailVars,
                         usages, armed, sampling, thVars>>
     ELSE UNCHANGED progVars
  /\ UNCHANGED <<everConnected, runOverClient, idleTicks, bursts, refreshCount>>
  /\ deliveries' = {}
  /\ thrown' = {}
  /\ UNCHANGED pureVars

\* socket.on('proc', runObserver): arm the interval timer, sample at once.
\* Before run() this._usages is undefined and line 317 throws a TypeError,
\* after the socket was tagged
RunObserver(c, p) ==
  /\ c \in procSocks
  /\ sockPid' = [sockPid EXCEPT ![c] = p]
  /\ IF phase = "new"
     THEN /\ thrown' = {"TypeError"}
          /\ UNCHANGED <<usages, armed, sampling>>
     ELSE /\ thrown' = {}
          /\ IF usages[p]
             THEN UNCHANGED <<usages, armed, sampling>>
             ELSE /\ sampling[p] < MaxSamples
                  /\ usages' = [usages EXCEPT ![p] = TRUE]
                  /\ armed' = [armed EXCEPT ![p] = @ + 1]
                  /\ sampling' = [sampling EXCEPT ![p] = @ + 1]
  /\ lastOp' = NoOp
  /\ lastEmit' = {}
  /\ UNCHANGED <<phase, auth, srvVars, actions, sockVars, hbVars, tailVars, thVars,
                 attempt, everConnected, runOverClient, idleTicks, bursts, refreshCount>>
  /\ deliveries' = {}
  /\ UNCHANGED pureVars

\* a setInterval timer of pid p ticks: runTimer
UsageTick(p) ==
  /\ armed[p] > 0
  /\ sampling[p] < MaxSamples
  /\ sampling' = [sampling EXCEPT ![p] = @ + 1]
  /\ lastOp' = NoOp
  /\ lastEmit' = {}
  /\ UNCHANGED <<phase, auth, srvVars, actions, sockVars, hbVars, tailVars, sockPid, usages, armed, thVars,
                 attempt, everConnected, runOverClient, idleTicks, bursts, refreshCount>>
  /\ deliveries' = {}
  /\ thrown' = {}
  /\ UNCHANGED pureVars

\* runTimer: the callback of pidusage.stat.  On an error the first statement
\* reads `ctx`, which no scope declares: a ReferenceError leaves the callback
\* before the timer is cleared and before emitError
SampleDone(p, ok) ==
  /\ sampling[p] > 0
  /\ sampling' = [sampling EXCEPT ![p] = @ - 1]
  /\ IF ok
     THEN /\ deliveries' = Broadcast(noClient, SysClients, "proc", FALSE, NspProc)
          /\ thrown' = {}
          /\ lastOp' = NoOp
          /\ lastEmit' = {}
     ELSE /\ thrown' = {"ReferenceError"}
          /\ deliveries' = {}
          /\ lastOp' = <<"sampleFail", p>>
          /\ lastEmit' = {}
  /\ UNCHANGED <<phase, auth, srvVars, actions, sockVars, hbVars, tailVars, sockPid, usages, armed, thVars,
                 attempt, everConnected, runOverClient, idleTicks, bursts, refreshCount>>
  /\ UNCHANGED pureVars

\* socket.on('disconnect', killObserver): the socket has left the namespace
DisconnectProc(c) ==
  /\ c \in procSocks
  /\ procSocks' = procSocks \ {c}
  /\ sockPid' = [sockPid EXCEPT ![c] = NoPid]
  /\ LET K == KillObserver(usages, armed, procSocks')
     IN /\ usages' = K.usages
        /\ armed' = K.armed
        /\ thrown' = IF K.threw THEN {"TypeError"} ELSE {}
  /\ lastOp' = NoOp
  /\ lastEmit' = {}
  /\ UNCHANGED <<phase, auth, srvVars, actions, sysSocks, logSocks, noClient, hbVars, tailVars, sampling,
                 thVars, attempt, everConnected, runOverClient, idleTicks, bursts, refreshCount>>
  /\ deliveries' = {}
  /\ UNCHANGED pureVars

\* the disconnect handler of a proc socket of a replaced server: killObserver
\* reads the proc namespace of the server in use
DisconnectStaleProc(c) ==
  /\ c \in staleProc
  /\ staleProc' = staleProc \ {c}
  /\ LET K == KillObserver(usages, armed, procSocks)
     IN /\ usages' = K.usages
        /\ armed' = K.armed
        /\ thrown' = IF K.threw THEN {"TypeError"} ELSE {}
  /\ lastOp' = NoOp
  /\ lastEmit' = {}
  /\ UNCHANGED <<phase, auth, sockio, staleSys, staleLog, oldSubs, actions, sockVars, hbVars,
                 tailVars, sockPid, sampling, thVars, attempt, everConnected, runOverClient,
                 idleTicks, bursts, refreshCount>>
  /\ deliveries' = {}
  /\ UNCHANGED pureVars

(* ------------------------ quit and the server ------------------------- *)

\* _sockio.close(), called by quit and by the setter of sockio: it closes the
\* connections.  The transport decides which sockets have left their
\* namespace before close() returns (a connection with a pending write closes
\* later): cs, cl and cp are the sys, log and proc sockets that have, and
\* their disconnect handlers have run.  When a disconnect handler of the proc
\* namespace throws, the exception leaves close() and its caller; `early`
\* says that it does so before the log sockets are reached.  The result is
\* the state of the sockets and of the registries when close() is left
CloseServer(cs, cl, cp, early) ==
  LET sys == sysSocks \ cs
      proc == procSocks \ cp
      K == IF cp = {} THEN [usages |-> usages, armed |-> armed, threw |-> FALSE]
           ELSE KillObserver(usages, armed, proc)
      threw == K.threw \/ Cardinality(cp) >= 2
      gone == IF threw /\ early THEN {} ELSE cl
      tag == [c \in LogConns |-> IF c \in gone THEN NoPid ELSE pm_id[c]]
      T == [tails |-> tails, live |-> liveTails]
  IN [sys      |-> sys,
      noClient |-> IF cs = {} THEN noClient ELSE NoClientOnDisconnect(sys),
      actions  |-> [c \in SysConns |->
                      IF c \in cs /\ actions[c] = "pending" THEN "orphan" ELSE actions[c]],
      proc     |-> proc,
      sockPid  |-> [c \in ProcConns |-> IF c \in cp THEN NoPid ELSE sockPid[c]],
      usages   |-> K.usages,
      armed    |-> K.armed,
      threw    |-> threw,
      log      |-> logSocks \ gone,
      pm_id    |-> tag,
      swept    |-> IF gone = {} THEN T ELSE KillTailProcess(T, NoPid, logSocks \ gone, tag)]

\* Monitor.prototype.quit: the pm2 bus of the last run() is closed; when there
\* is a server, _sockio.close() closes the connections and _killTailProcess()
\* sweeps, unless an exception has left close().  The sockets that are left
\* disconnect afterwards
Quit(cs, cl, cp, early) ==
  /\ cs \subseteq sysSocks /\ cl \subseteq logSocks /\ cp \subseteq procSocks
  /\ phase' = IF phase = "new" THEN "new" ELSE "quit"
  /\ IF sockio = "none"
     THEN /\ cs = {} /\ cl = {} /\ cp = {} /\ ~early
          /\ thrown' = {}
          /\ UNCHANGED <<sockio, sockVars, actions, tailVars, usageVars>>
     ELSE LET C == CloseServer(cs, cl, cp, early)
              S == IF C.threw THEN C.swept
                   ELSE KillTailProcess(C.swept, NoPid, C.log, C.pm_id)
          IN /\ early => C.threw
             /\ sockio' = "closed"
             /\ sysSocks' = C.sys
             /\ noClient' = C.noClient
             /\ actions' = C.actions
             /\ procSocks' = C.proc
             /\ sockPid' = C.sockPid
             /\ usages' = C.usages
             /\ armed' = C.armed
             /\ thrown' = IF C.threw THEN {"TypeError"} ELSE {}
             /\ logSocks' = C.log
             /\ pm_id' = C.pm_id
             /\ tails' = S.tails
             /\ liveTails' = S.live
             /\ UNCHANGED <<opening, sampling>>
  /\ lastOp' = <<"quit", 0>>
  /\ lastEmit' = {}
  /\ UNCHANGED <<auth, staleSys, staleLog, staleProc, oldSubs, hbVars, thVars,
                 attempt, everConnected, idleTicks, bursts, refreshCount>>
  /\ runOverClient' = (runOverClient /\ sysSocks' # {})
  /\ deliveries' = {}
  /\ UNCHANGED pureVars

\* the setter of sockio: the server in use, if any, is closed, the new server
\* is bound and _listeningSocketIO installs the connection handlers and the
\* middleware on it (a server handed over has not been listened to, so the
\* test of line 533 passes).  The new namespaces are empty; the sockets of
\* the closed server that have not left yet disconnect afterwards, and
\* nothing resets _noClient.  An exception that leaves close() leaves the
\* setter before the assignment
SetSockio(cs, cl, cp, early) ==
  /\ cs \subseteq sysSocks /\ cl \subseteq logSocks /\ cp \subseteq procSocks
  /\ IF sockio = "none"
     THEN /\ cs = {} /\ cl = {} /\ cp = {} /\ ~early
          /\ sockio' = "open"
          /\ thrown' = {}
          /\ UNCHANGED <<staleSys, staleLog, staleProc, sockVars, actions, tailVars, usageVars>>
     ELSE LET C == CloseServer(cs, cl, cp, early)
          IN /\ early => C.threw
             /\ noClient' = C.noClient
             /\ actions' = C.actions
             /\ usages' = C.usages
             /\ armed' = C.armed
             /\ tails' = C.swept.tails
             /\ liveTails' = C.swept.live
             /\ UNCHANGED <<opening, sampling>>
             /\ IF C.threw
                THEN /\ sockio' = "closed"
                     /\ thrown' = {"TypeError"}
                     /\ sysSocks' = C.sys
                     /\ logSocks' = C.log
                     /\ procSocks' = C.proc
                     /\ pm_id' = C.pm_id
                     /\ sockPid' = C.sockPid
                     /\ UNCHANGED <<staleSys, staleLog, staleProc>>
                ELSE /\ sockio' = "open"
                     /\ thrown' = {}
                     /\ staleSys' = staleSys \cup C.sys
                     /\ staleLog' = staleLog \cup C.log
                     /\ staleProc' = staleProc \cup C.proc
                     /\ sysSocks' = {}
                     /\ logSocks' = {}
                     /\ procSocks' = {}
                     /\ pm_id' = [c \in LogConns |-> NoPid]
                     /\ sockPid' = [c \in ProcConns |-> NoPid]
  /\ lastOp' = NoOp
  /\ lastEmit' = {}
  /\ UNCHANGED <<phase, auth, oldSubs, hbVars, thVars,
                 attempt, everConnected, idleTicks, bursts, refreshCount>>
  /\ runOverClient' = (runOverClient /\ sysSocks' # {})
  /\ deliveries' = {}
  /\ UNCHANGED pureVars

(* ------------------- the static and pure functions -------------------- *)

\* Monitor.toConnectionString applied to a connection object with a port
Encode ==
  /\ purePc = "init"
  /\ conn.port # UndefinedPort
  /\ uri' = ToConnectionString(conn)
  /\ purePc' = "encoded"
  /\ UNCHANGED <<progVars, histVars, conn, parsed, env, filtered>>

\* a connection string is written from the parts of a connection object
WriteString ==
  /\ purePc = "init"
  /\ conn.namespace = <<>>
  /\ uri' = ConnectionStringOf(conn)
  /\ purePc' = "written"
  /\ UNCHANGED <<progVars, histVars, conn, parsed, env, filtered>>

\* Monitor.parseConnectionString applied to the connection string
Parse ==
  /\ purePc \in {"encoded", "written"}
  /\ parsed' = ParseConnectionString(uri)
  /\ purePc' = IF purePc = "encoded" THEN "roundtrip" ELSE "parsed"
  /\ UNCHANGED <<progVars, histVars, conn, uri, env, filtered>>

\* _refreshProcs: the map callback applied to a listed process
Filter ==
  /\ purePc = "init"
  /\ filtered' = FilterEnv(env)
  /\ purePc' = "filtered"
  /\ UNCHANGED <<progVars, histVars, conn, uri, parsed, env>>

\* the codec on every connection object of Endpoints
InitCodec ==
  /\ InitMonitor(NoAuth)
  /\ \E c \in Endpoints : PureInit("init", c, IdleEnv)
NextCodec == Encode \/ WriteString \/ Parse
SpecCodec == InitCodec /\ [][NextCodec]_vars

\* the filter on every environment of Envs
InitEnv ==
  /\ InitMonitor(NoAuth)
  /\ \E e \in Envs : PureInit("init", IdleConn, e)
NextEnv == Filter
SpecEnv == InitEnv /\ [][NextEnv]_vars

(* --------------------------- specifications --------------------------- *)

SysConnect == \E c \in SysConns, tok \in Tokens : ConnectSys(c, tok)
SysDisconnect == \E c \in SysConns : DisconnectSys(c)
LogConnect == \E c \in LogConns, tok \in Tokens : ConnectLog(c, tok)
LogDisconnect == \E c \in LogConns : DisconnectLog(c)
ProcConnect == \E c \in ProcConns, tok \in Tokens : ConnectProc(c, tok)
ProcDisconnect == \E c \in ProcConns : DisconnectProc(c)
\* a client of the default configuration sends no token
SysJoin == \E c \in SysConns : ConnectSys(c, NoAuth)
LogJoin == \E c \in LogConns : ConnectLog(c, NoAuth)
ProcJoin == \E c \in ProcConns : ConnectProc(c, NoAuth)
ListReply == \E ok \in BOOLEAN, list \in SUBSET Pids : ListDone(ok, list)
StatReply == \E ok \in BOOLEAN : StatDone(ok)
ProcsAsk == \E c \in SysConns : ProcsRequest(c)
ActionAsk == \E c \in SysConns : ActionRequest(c)
ActionReply == \E c \in SysConns, err \in BOOLEAN, forceRefresh \in BOOLEAN :
                 ActionDone(c, err, forceRefresh)
TailRequest == \E c \in LogConns, p \in Pids : StartTailProcess(c, p)
TailReply == \E p \in Pids, res \in {"ok", "err", "none"} : TailOpened(p, res)
TailData == \E p \in Pids, ok \in BOOLEAN : TailLine(p, ok)
TailKillRequest == \E c \in LogConns, arg \in Pids \cup {NoPid} : TailKill(c, arg)
ProcRequest == \E c \in ProcConns, p \in Pids : RunObserver(c, p)
UsageTimer == \E p \in Pids : UsageTick(p)
SampleReply == \E p \in Pids, ok \in BOOLEAN : SampleDone(p, ok)
SysStaleDisconnect == \E c \in SysConns : DisconnectStaleSys(c)
LogStaleDisconnect == \E c \in LogConns : DisconnectStaleLog(c)
ProcStaleDisconnect == \E c \in ProcConns : DisconnectStaleProc(c)
SockioSet == \E cs \in SUBSET sysSocks, cl \in SUBSET logSocks, cp \in SUBSET procSocks,
                early \in BOOLEAN : SetSockio(cs, cl, cp, early)
QuitNow == \E cs \in SUBSET sysSocks, cl \in SUBSET logSocks, cp \in SUBSET procSocks,
              early \in BOOLEAN : Quit(cs, cl, cp, early)

\* the whole monitor, any configuration of the secret
Next ==
  \/ Run \/ Pm2Event \/ ThrottleFire \/ ListReply
  \/ SysConnect \/ SysDisconnect \/ StatReply \/ HbTimerFire
  \/ ProcsAsk \/ ActionAsk \/ ActionReply
  \/ LogConnect \/ LogDisconnect \/ TailRequest \/ TailReply \/ TailData \/ TailKillRequest
  \/ ProcConnect \/ ProcDisconnect \/ ProcRequest \/ UsageTimer \/ SampleReply
  \/ SockioSet \/ SysStaleDisconnect \/ LogStaleDisconnect \/ ProcStaleDisconnect
  \/ QuitNow
Spec == InitAuth /\ [][Next]_vars

\* the sys namespace with its heartbeat
NextSys ==
  \/ Run \/ SockioSet
  \/ SysConnect \/ SysDisconnect \/ SysStaleDisconnect \/ StatReply \/ HbTimerFire
SpecSys == InitAuth /\ [][NextSys]_vars

\* the access gate: connection attempts with any token on the three
\* namespaces; one connection of the log and of the proc namespace
LogKnock == \E tok \in Tokens : ConnectLog(1, tok)
ProcKnock == \E tok \in Tokens : ConnectProc(1, tok)
NextGate ==
  \/ Run \/ SockioSet
  \/ SysConnect \/ SysDisconnect \/ SysStaleDisconnect
  \/ LogKnock \/ DisconnectLog(1) \/ LogStaleDisconnect
  \/ ProcKnock \/ DisconnectProc(1) \/ ProcStaleDisconnect
SpecGate == InitAuth /\ [][NextGate]_vars

\* the throttle of the process-list refresh
NextThrottle ==
  \/ Run \/ Pm2Event \/ ThrottleFire \/ ListReply
  \/ SockioSet \/ SysJoin \/ SysDisconnect \/ SysStaleDisconnect
SpecThrottle == Init /\ [][NextThrottle]_vars
\* the same with the timers of node: a timer that stays armed fires
SpecThrottleFair == SpecThrottle /\ WF_vars(ThrottleFire)

\* the log namespace and the tail registry
NextTail ==
  \/ Run \/ SockioSet \/ LogStaleDisconnect
  \/ LogJoin \/ LogDisconnect \/ TailRequest \/ TailReply \/ TailData \/ TailKillRequest
SpecTail == Init /\ [][NextTail]_vars

\* the log namespace and the tail registry until and after quit
NextQuit == NextTail \/ QuitNow
SpecQuit == Init /\ [][NextQuit]_vars

\* the proc namespace and the usage registry
NextUsage ==
  \/ Run \/ SockioSet \/ ProcStaleDisconnect
  \/ ProcJoin \/ ProcDisconnect \/ ProcRequest \/ UsageTimer \/ SampleReply
SpecUsage == Init /\ [][NextUsage]_vars

\* Every caller of _broadcast, with the comings and goings of a sys client,
\* run() and the replacement of the server.  One sys client, one log
\* subscriber and one proc subscriber follow one pid, which is what it takes
\* to have lines, samples, lists and errors to broadcast; they come and go
\* independently of each other.  The counters are capped where they grow:
\* the calls of run(), the tail streams, the usage timers and the lists in
\* flight.
OneSysJoin == ConnectSys(1, NoAuth)
OneSysLeave == DisconnectSys(1)
OneLogJoin == ConnectLog(1, NoAuth)
OneLogLeave == DisconnectLog(1)
OneTailRequest ==
  /\ phase = "new" \/ tails[1] \/ Streams(opening, liveTails, Pids) < MaxTails
  /\ StartTailProcess(1, 1)
OneTailReply == \E res \in {"ok", "err", "none"} : TailOpened(1, res)
OneTailData == \E ok \in BOOLEAN : TailLine(1, ok)
OneProcJoin == ConnectProc(1, NoAuth)
OneProcLeave == DisconnectProc(1)
OneProcRequest ==
  /\ phase = "new" \/ usages[1] \/ armed[1] < MaxObservers
  /\ RunObserver(1, 1)
OneUsageTimer == UsageTick(1)
OneSampleReply == \E ok \in BOOLEAN : SampleDone(1, ok)
OneListRequest == listInFlight < MaxLists /\ ThrottleFire
OneListReply == \E ok \in BOOLEAN : ListDone(ok, {1})
RunOrRerun == timerSeq < MaxRuns /\ Run
NextBroadcast ==
  \/ RunOrRerun \/ OneListRequest \/ OneListReply
  \/ SockioSet \/ SysStaleDisconnect \/ LogStaleDisconnect \/ ProcStaleDisconnect
  \/ OneSysJoin \/ OneSysLeave \/ StatReply \/ HbTimerFire
  \/ OneLogJoin \/ OneLogLeave \/ OneTailRequest \/ OneTailReply \/ OneTailData
  \/ OneProcJoin \/ OneProcLeave \/ OneProcRequest \/ OneUsageTimer \/ OneSampleReply
SpecBroadcast == Init /\ [][NextBroadcast]_vars

\* The requests that get a report when they fail, and their outcomes: the
\* actions of a sys client and the tails of the log clients, on the one
\* server that the setter binds first
BindServer == sockio = "none" /\ SetSockio({}, {}, {}, FALSE)
OneActionReply == \E err \in BOOLEAN, forceRefresh \in BOOLEAN :
                    ActionDone(1, err, forceRefresh)
NextReport ==
  \/ Run \/ BindServer
  \/ ConnectSys(1, NoAuth) \/ DisconnectSys(1) \/ ActionRequest(1) \/ OneActionReply
  \/ LogJoin \/ LogDisconnect \/ TailRequest \/ TailReply \/ TailData
SpecReport == Init /\ [][NextReport]_vars

(* ------------------------------- claims ------------------------------- *)

\* C1: every event that _broadcast emits, to the sys, log or proc namespace, is
\* emitted while at least one socket is connected to the sys namespace.
C1_NoDeliveryWithoutSysClient == \A d \in deliveries : d.sys
\* C1 witness: a line of a running tail has arrived while a log subscriber is
\* connected and no socket is connected to the sys namespace, and nothing was
\* emitted.
C1_Witness ==
  /\ lastOp = <<"line", 1>>
  /\ SysClients = {} /\ noClient
  /\ 1 \in logSocks /\ liveTails[1] > 0
  /\ deliveries = {}

\* C2: at most one debounce timer is pending, and _refreshProcs has been
\* invoked exactly once per burst of calls whose last timer has fired, and not
\* at all for the burst whose last timer is still pending.
C2_OneRefreshPerBurst ==
  /\ Cardinality(thTimers) <= 1
  /\ refreshCount = IF timerSeq \in thTimers THEN bursts - 1 ELSE bursts
\* C2 witness: a single burst of at least two calls has ended in one refresh.
C2_Witness ==
  /\ timerSeq >= 2 /\ bursts = 1 /\ thTimers = {} /\ refreshCount = 1

\* C3: for every pid at most one tail stream is being opened or running.
C3_OneTailPerPid == \A p \in Pids : opening[p] + liveTails[p] <= 1

\* C4: every pid with a tail handle or a usage timer is the most recently
\* requested pid of a connected socket of the log or proc namespace.
C4_HandlesHaveSubscriber ==
  \A p \in Pids :
    /\ tails[p] => \E c \in logSocks : pm_id[c] = p
    /\ usages[p] => \E c \in procSocks : sockPid[c] = p

\* C5: a disconnect of a proc socket leaves in the usage registry exactly the
\* timers whose pid is tagged on a proc socket that is still connected.
C5_DisconnectSweepsUsages ==
  [][(procSocks' # procSocks /\ procSocks' \subseteq procSocks /\ staleProc' = staleProc) =>
       \A p \in Pids :
         LET claimed == \E c \in procSocks' : sockPid'[c] = p
         IN /\ usages'[p] = (usages[p] /\ claimed)
            /\ armed'[p] = IF usages[p] /\ ~claimed THEN armed[p] - 1 ELSE armed[p]]_vars

\* C6: a sweep (kill without a pid) removes and terminates every handle whose
\* pid is not tagged on a connected log socket and leaves the others as they
\* were.
C6_SweepKillsUnclaimed ==
  [][lastOp'[1] = "sweep" =>
       \A p \in Pids :
         LET claimed == \E c \in logSocks' : pm_id'[c] = p
         IN /\ tails'[p] = (tails[p] /\ claimed)
            /\ liveTails'[p] = IF tails[p] /\ ~claimed THEN liveTails[p] - 1
                               ELSE liveTails[p]]_vars
\* C6 witness: a sweep has just removed a handle and kept a claimed one.
C6_Witness ==
  /\ lastOp[1] = "sweep" /\ lastOp[2] >= 1
  /\ \E p \in Pids : tails[p] /\ \E c \in logSocks : pm_id[c] = p

\* C7: after a failed usage sample of a pid its timer is cleared and removed
\* from the usage registry.
C7_FailedSampleStopsTimer ==
  \A p \in Pids : lastOp = <<"sampleFail", p>> => (~usages[p] /\ armed[p] = 0)

\* C8 as stated: while no sys socket is connected no system-stat refresh is
\* started.
C8_NoTickWithoutClient == SysClients = {} => idleTicks = 0
\* C8 amended: nothing is pending before the first sys connect; once no sys
\* socket is connected at most one more system-stat refresh starts (the tick
\* that was already scheduled), no timer is armed after it, and the loop is
\* stopped when nothing is pending.
C8_AtMostOneTickWithoutClient ==
  /\ ~everConnected => (status = "" /\ statInFlight = 0 /\ hbTimers = 0)
  /\ idleTicks <= 1
  /\ (SysClients = {} /\ idleTicks = 1) => hbTimers = 0
  /\ (SysClients = {} /\ statInFlight = 0 /\ hbTimers = 0) => status = ""
\* C8 witness: the only client left, the scheduled tick ran once more and the
\* loop has stopped.
C8_Witness ==
  /\ everConnected /\ SysClients = {} /\ idleTicks = 1
  /\ status = "" /\ statInFlight = 0 /\ hbTimers = 0

\* C9: a sys connect that finds the heartbeat stopped starts a fresh tick, and
\* while a sys client is connected the heartbeat is running: the status is R
\* and a refresh is in flight or a timer is armed.  This holds under every
\* interleaving of connects, disconnects, stat completions, timer fires and
\* replacements of the server; the one step that is set aside is run() called
\* with a sys client connected, which marks the namespace empty under that
\* client until the next sys connect.
C9_RunningWhileSysClient ==
  /\ []((sysSocks # {} /\ ~runOverClient) =>
          (status = "R" /\ statInFlight + hbTimers >= 1))
  /\ [][(sysSocks' # sysSocks /\ sysSocks \subseteq sysSocks' /\ status # "R") =>
          (status' = "R" /\ statInFlight' = statInFlight + 1)]_vars
\* C9 witness: a connect has just started a tick after an earlier run of the
\* heartbeat had produced a snapshot and stopped.
C9_Witness ==
  /\ lastOp = <<"connect", 1>> /\ sysStat /\ ~runOverClient
  /\ sysSocks # {} /\ status = "R" /\ statInFlight = 1 /\ hbTimers = 0

\* C10: with a secret configured, a connection attempt with another token
\* changes nothing of the monitor's state: no socket joins a namespace, and
\* no flag, registry, request or timer changes.
C10_RejectedRunsNoHandler ==
  [][(lastOp'[1] = "connect" /\ auth # NoAuth /\ attempt' # auth) =>
       UNCHANGED progVars]_vars
\* C10 witness: a wrong token has just been presented with a secret configured,
\* while clients with the right token are connected.
C10_Witness ==
  /\ auth = Secret /\ lastOp[1] = "connect" /\ attempt = "wrong"
  /\ sysSocks # {} /\ logSocks # {} /\ procSocks # {}

\* C11: the report of a failed request goes to the client of the request and
\* to nobody else: the report of a failed action to the socket that sent the
\* action, the report of a failed tail only to log sockets that have asked
\* for a tail.
C11_ErrorOnlyToRequester ==
  \A e \in lastEmit :
    e.err =>
      /\ e.ev = "action" => (lastOp[1] = "actionFail" /\ lastOp[2] = e.to)
      /\ e.ev = "log" => pm_id[e.to] # NoPid

\* C12: a list refresh that fails broadcasts `info` with the error and no
\* `procs`, and leaves the cache as it was; a refresh that succeeds makes the
\* cache the new list, whatever it held, and broadcasts `procs` and nothing
\* else.  A broadcast goes to every socket of the sys namespace unless
\* _noClient is set.
C12_RefreshOutcome ==
  [][/\ lastOp'[1] = "listErr" =>
          /\ procs' = procs /\ procList' = procList
          /\ \A r \in lastEmit' : r.nsp = NspSys /\ r.ev = "info" /\ r.err
          /\ ~noClient => {r.to : r \in lastEmit'} = sysSocks
     /\ lastOp'[1] = "listOk" =>
          /\ procs' /\ procList' = lastOp'[2]
          /\ \A r \in lastEmit' : r.nsp = NspSys /\ r.ev = "procs" /\ ~r.err
          /\ ~noClient => {r.to : r \in lastEmit'} = sysSocks]_vars
\* C12 witness: a refresh has just failed with a sys client connected and a
\* non-empty list in the cache from an earlier refresh.
C12_Witness ==
  /\ lastOp[1] = "listErr" /\ procs /\ procList # {}
  /\ sysSocks # {} /\ lastEmit # {}

\* a missing value, null, undefined and the empty string count as the same
Blank(x) == x \in {<<>>, Null, Undefined}
SameText(x, y) == x = y \/ (Blank(x) /\ Blank(y))

\* C13: a connection object that was encoded and decoded has the hostname,
\* port, path, namespace and authorization it had before.
C13_RoundTrip ==
  purePc = "roundtrip" =>
    /\ SameText(parsed.hostname, conn.hostname)
    /\ parsed.port = ToDecimal(conn.port)
    /\ SameText(parsed.path, conn.path)
    /\ SameText(parsed.namespace, conn.namespace)
    /\ SameText(parsed.authorization, conn.authorization)

\* C14: the object decoded from a connection string has a port and a
\* hostname: 8088 when the string has no port, 127.0.0.1 when it has no
\* hostname; its authorization is empty when the string has no `@`.
C14_DefaultsPresent ==
  purePc = "parsed" =>
    /\ ~Blank(parsed.port) /\ ~Blank(parsed.hostname)
    /\ conn.port = UndefinedPort => parsed.port = ToDecimal(DefaultPort)
    /\ conn.hostname = <<>> => parsed.hostname = StrLoopback
    /\ conn.authorization = <<>> => parsed.authorization = <<>>

\* the keys the claim retains: not starting with `_` or `axm_`, neither
\* `versioning` nor `command`, first character above code 90
Retained(k) ==
  /\ k[1] # "_"
  /\ ~StartsWith(k, StrAxm)
  /\ k \notin {KeyVersioning, KeyCommand}
  /\ CharCode(k[1]) > 90
\* C15: the filtered environment of a process has exactly the key `user`, with
\* the value of USER, and the retained keys with their values.
C15_FilteredEnv ==
  (purePc = "filtered" /\ env.present) =>
    LET keep == {k \in DOMAIN env.map : Retained(k)} \ {KeyUser}
    IN /\ DOMAIN filtered = {KeyUser} \cup keep
       /\ filtered[KeyUser] = IF KeyUSER \in DOMAIN env.map THEN env.map[KeyUSER]
                               ELSE "undefined"
       /\ \A k \in keep : filtered[k] = env.map[k]

\* C16: at most one heartbeat item (a system-stat refresh in flight or an armed
\* timer) is pending in any state, and a connect that started a tick found
\* none pending.
C16_OneHeartbeatChain ==
  /\ statInFlight + hbTimers <= 1
  /\ lastOp = <<"connect", 1>> => (statInFlight = 1 /\ hbTimers = 0)
\* C16 witness: a second sys client has just connected while the heartbeat of
\* the first is running with its timer armed, and started nothing.
C16_Witness ==
  /\ lastOp = <<"connect", 0>> /\ Cardinality(sysSocks) >= 2
  /\ status = "R" /\ hbTimers = 1 /\ statInFlight = 0

\* C17: every call of _throttleRefresh, by an event of the pm2 bus or by run,
\* is followed by a call of _refreshProcs: while trigger n is the latest and
\* r refreshes have been made, a further refresh is eventually made.
C17_TriggerLeadsToRefresh ==
  \A n \in 1..MaxTriggers, r \in 0..MaxTriggers :
    (timerSeq = n /\ throttle = n /\ refreshCount = r) ~> (refreshCount > r)
\* C17 witness: the trigger of run and later events of the bus have each been
\* followed by a refresh, and nothing is pending.
C17_Witness ==
  /\ timerSeq = MaxTriggers /\ throttle = 0 /\ thTimers = {}
  /\ refreshCount >= 2

\* C18: the handler of a sys connect sends the connecting socket `procs` or
\* `info`.
C18_ConnectGetsProcsOrInfo ==
  lastOp[1] = "connect" =>
    \E e \in lastEmit : e.nsp = NspSys /\ e.to \in sysSocks /\ e.ev \in {"procs", "info"}

\* C19: after a tail_kill without a pid from a log socket, the pid that socket
\* remembers has no handle unless another connected log socket claims it, and
\* the handles of the other pids that connected log sockets claim are as they
\* were.
C19_TailKillRemovesOwnHandle ==
  [][(lastOp'[1] = "sweep" /\ logSocks' = logSocks) =>
       \E c \in logSocks :
         /\ pm_id[c] # NoPid =>
              (~tails'[pm_id[c]] \/ \E d \in logSocks \ {c} : pm_id[d] = pm_id[c])
         /\ \A p \in Pids \ {pm_id[c]} :
              (\E d \in logSocks : pm_id[d] = p) => tails'[p] = tails[p]]_vars

\* C20: when quit has returned, the tail registry is empty and no tail is
\* running.
C20_QuitEmptiesTails ==
  lastOp[1] = "quit" => \A p \in Pids : ~tails[p] /\ liveTails[p] = 0

=============================================================================
